---- MODULE Spec2Model ----
(***************************************************************************)
(* Model of src/src/extract_load.py: the FinancialDataETL pipeline.        *)
(*   __main__ : FinancialDataETL() ; run_etl() ; exit(1) on any exception  *)
(*   __init__ : _validate_env_vars ; _create_db_engine ; tickers           *)
(*   run_etl  : fetch_all_tickers_data ; save_to_postgres                  *)
(* The market-data provider and the database are the environment: every    *)
(* provider call answers with an error or with 0..MaxRows rows, and every  *)
(* database operation succeeds or raises.                                  *)
(***************************************************************************)
EXTENDS Integers, Sequences, FiniteSets, TLC

\* ------------------------------------------------------------------ bounds
\* Number of configured instruments (the source lists ten).
NumTickers == 2
\* Largest number of rows one provider answer holds.
MaxRows == 2
\* Largest value of fetch_ticker_data's retries argument (default 3).
MaxRetries == 2
\* Largest chunksize handed to to_sql (the source passes 1000).
MaxChunkSize == 2

VARIABLES
    env,          \* os.environ restricted to required_vars: "absent" | "empty" | "set"
    retries,      \* the retries argument of fetch_ticker_data
    pc,           \* position of the process
    missing_vars, \* the list named by the EnvironmentError (<<>> when none was raised)
    engine,       \* TRUE once create_engine has returned self.engine
    idx,          \* position of the for loop of fetch_all_tickers_data in self.tickers
    attempt,      \* loop variable of fetch_ticker_data (0-based)
    all_data,     \* the list all_data of fetch_all_tickers_data
    df,           \* the DataFrame handed to save_to_postgres
    clock,        \* datetime.now(): ticks once per provider call
    table,        \* the target table as committed in the database
    work,         \* the target table as seen inside the open transaction
    if_exists,    \* the if_exists argument of the running save_to_postgres
    chunksize,    \* the chunksize of the running to_sql
    chunk_i,      \* chunks of the running to_sql already executed
    exitCode,     \* process exit status (-1 while running)
    raised,       \* the exception that ended the run ("none" when none)
    log,          \* the records emitted through logger
    results,      \* history: what fetch_ticker_data returned, per finished fetch
    calls,        \* history: provider calls <<ticker, attempt number, "ok" | "err", rows>>
    dbOps,        \* history: operations sent to the database, "rollback" after a failed one
    validations,  \* history: executions of _validate_env_vars
    table0        \* history: the committed table when the run began

vars == <<env, retries, pc, missing_vars, engine, idx, attempt, all_data, df, clock,
          table, work, if_exists, chunksize, chunk_i, exitCode, raised, log,
          results, calls, dbOps, validations, table0>>

\* ------------------------------------------------------------ configuration
required_vars == <<"DB_HOST_PROD", "DB_PORT_PROD", "DB_NAME_PROD",
                   "DB_USER_PROD", "DB_PASS_PROD", "DB_SCHEMA_PROD">>

RequiredSet == {required_vars[i] : i \in DOMAIN required_vars}

\* os.getenv(var) is falsy when the variable is absent (None) or empty ("").
Falsy(e, var) == e[var] # "set"

\* Mutant: stops at the first missing variable.
MissingVarsFirstOnly(e) ==
    LET all == SelectSeq(required_vars, LAMBDA v: Falsy(e, v))
    IN IF all = <<>> THEN <<>> ELSE <<Head(all)>>

\* missing_vars = [var for var in required_vars if not os.getenv(var)]
MissingVars(e) == SelectSeq(required_vars, LAMBDA v: Falsy(e, v))

\* Mutant: the result of the validation is ignored.
ValidationIgnored(missing) == FALSE

\* if missing_vars: raise EnvironmentError(...)
ValidationRaises(missing) == missing # <<>>

\* Mutant: __main__ logs the error and ends normally.
ExitStatusSwallowed(failed) == 0

\* __main__: exit(1) in the except clause, status 0 when the script runs to its end.
ExitStatus(failed) == IF failed THEN 1 ELSE 0

\* ------------------------------------------------------------------- fetch
\* self.tickers, instruments named 1..NumTickers in configured order.
tickers == [i \in 1..NumTickers |-> i]

\* The closing price the provider reports for an instrument and a date.
ClosePrice(t, d) == 10 * t + d

\* tick.history(...)[['Close']] with n rows, indexed by date.
History(t, n) == [d \in 1..n |-> [date |-> d, Close |-> ClosePrice(t, d)]]

\* Mutant: the capture time is read again for every row.
StampPerRow(rows, t, now) ==
    [d \in 1..Len(rows) |->
        [date |-> rows[d].date, Close |-> rows[d].Close,
         ticker |-> t, data_coleta |-> now + d - 1]]

\* data['ticker'] = ticker ; data['data_coleta'] = datetime.now()
Stamp(rows, t, now) ==
    [d \in 1..Len(rows) |->
        [date |-> rows[d].date, Close |-> rows[d].Close,
         ticker |-> t, data_coleta |-> now]]

\* The two kinds of value fetch_ticker_data returns.
None == [none |-> TRUE, rows |-> <<>>]
DataFrame(rows) == [none |-> FALSE, rows |-> rows]

\* Mutant: an empty answer is not returned, it is handled as a failed attempt.
ReturnsOnlyNonEmpty(data) == data # <<>>

\* return data: the successful attempt returns whatever the provider answered.
ReturnsOnSuccess(data) == TRUE

\* Mutant: the last failed attempt re-raises instead of returning None.
ExhaustedRaises(a, r) == IF a = r - 1 THEN "raise" ELSE "retry"

\* Mutant: the first failed attempt gives up, whatever retries says.
GivesUpAfterFirstFailure(a, r) == "return_none"

\* except Exception: ... if attempt == retries - 1: return None
AfterFailedAttempt(a, r) == IF a = r - 1 THEN "return_none" ELSE "retry"

\* if data is not None: all_data.append(data)
Collected(r) == ~r.none

\* Mutant: the new frame is put in front of the list.
PrependData(l, r) == IF Collected(r) THEN <<r.rows>> \o l ELSE l

\* The body of the for loop of fetch_all_tickers_data after fetch returned r.
AppendData(l, r) == IF Collected(r) THEN Append(l, r.rows) ELSE l

\* Mutant: any instrument without a frame makes the run fail.
NoDataIfAnyMissing(l) == Len(l) < NumTickers

\* if not all_data: raise ValueError(...)
NoData(l) == l = <<>>

RECURSIVE Concat(_)
\* pd.concat(all_data): the frames one after the other, in list order.
Concat(l) == IF l = <<>> THEN <<>> ELSE Head(l) \o Concat(Tail(l))

\* ---------------------------------------------------------------- database
NoTable == [exists |-> FALSE, rows |-> <<>>]
Table(rows) == [exists |-> TRUE, rows |-> rows]

\* A row left in the table by an earlier run.
OldRow == [date |-> 0, Close |-> 0, ticker |-> 0, data_coleta |-> 0]

Modes == {"replace", "append", "fail"}

\* Mutant: no transaction, every statement is committed when it is executed.
RollbackKeepsWrites(committed, uncommitted) == uncommitted

\* with self.engine.begin(): leaving the block on an exception rolls back.
Rollback(committed, uncommitted) == committed

\* with self.engine.begin(): leaving the block normally commits.
CommitTx(committed, uncommitted) == uncommitted

Min(a, b) == IF a < b THEN a ELSE b

\* pandas insert: rows start_i .. end_i - 1 of chunk i (0-based), as a sequence.
Chunk(d, cs, i) == SubSeq(d, i * cs + 1, Min((i + 1) * cs, Len(d)))

\* Mutant: nrows // chunksize chunks, the last partial chunk is never sent.
ChunksDoneNoRemainder(d, cs, i) == i >= Len(d) \div cs

\* pandas insert: the loop ends when nrows = 0 or start_i >= end_i.
ChunksDone(d, cs, i) == Len(d) = 0 \/ i * cs >= Min((i + 1) * cs, Len(d))

\* ------------------------------------------------------------------ logging
Logged(l, level, event, t, n) == Append(l, <<level, event, t, n>>)

\* run_etl's except clause, then __main__'s except clause.
RunEtlFailed(l) ==
    Logged(Logged(l, "ERROR", "run_etl", 0, 0), "CRITICAL", "main", 0, 0)

\* save_to_postgres' except clause (SQLAlchemyError only), then the callers'.
SaveFailed(l, exc) ==
    RunEtlFailed(IF exc = "SQLAlchemyError"
                 THEN Logged(l, "ERROR", "save", 0, 0) ELSE l)

\* -------------------------------------------------------------------- Init
Init ==
    /\ env \in [RequiredSet -> {"absent", "empty", "set"}]
    /\ retries \in 0..MaxRetries
    /\ table \in {NoTable, Table(<<>>), Table(<<OldRow>>)}
    /\ table0 = table
    /\ work = table
    /\ pc = "start"
    /\ missing_vars = <<>>
    /\ engine = FALSE
    /\ idx = 1
    /\ attempt = 0
    /\ all_data = <<>>
    /\ df = <<>>
    /\ clock = 0
    /\ if_exists = "replace"
    /\ chunksize = 1
    /\ chunk_i = 0
    /\ exitCode = -1
    /\ raised = "none"
    /\ log = <<>>
    /\ results = <<>>
    /\ calls = <<>>
    /\ dbOps = <<>>
    /\ validations = 0

fetchVars == <<idx, attempt, all_data, clock, results, calls>>
dbVars == <<table, work, if_exists, chunksize, chunk_i, dbOps>>
cfgVars == <<env, retries, missing_vars, engine, validations, table0>>

\* Mutant: run_etl catches a database error and calls save_to_postgres again.
AbortRetriesWrite(exc, l) ==
    IF exc = "SQLAlchemyError"
    THEN /\ pc' = "save"
         /\ raised' = "none"
         /\ exitCode' = exitCode
         /\ log' = l
    ELSE /\ pc' = "exited"
         /\ raised' = exc
         /\ exitCode' = ExitStatus(TRUE)
         /\ log' = l

\* An exception reaches __main__: the run ends with exit(1).
Abort(exc, l) ==
    /\ pc' = "exited"
    /\ raised' = exc
    /\ exitCode' = ExitStatus(TRUE)
    /\ log' = l

\* ----------------------------------------------------------------- __init__
\* _validate_env_vars, first statement of __init__.
ValidateEnvVars ==
    /\ pc = "start"
    /\ validations' = validations + 1
    /\ LET missing == MissingVars(env)
       IN IF ValidationRaises(missing)
          THEN /\ missing_vars' = missing
               /\ Abort("EnvironmentError", Logged(log, "CRITICAL", "main", 0, 0))
          ELSE /\ missing_vars' = <<>>
               /\ pc' = "create_engine"
               /\ UNCHANGED <<raised, exitCode, log>>
    /\ UNCHANGED <<env, retries, engine, table0, df>>
    /\ UNCHANGED fetchVars
    /\ UNCHANGED dbVars

\* _create_db_engine: create_engine builds the engine without connecting; it
\* may raise (bad URL, missing driver), which ends the run.
CreateDbEngine ==
    /\ pc = "create_engine"
    /\ \E ok \in BOOLEAN:
         IF ok
         THEN /\ engine' = TRUE
              /\ pc' = "fetch"
              /\ log' = Logged(log, "INFO", "engine", 0, 0)
              /\ UNCHANGED <<raised, exitCode>>
         ELSE /\ engine' = FALSE
              /\ Abort("EngineError",
                       Logged(Logged(log, "ERROR", "engine", 0, 0),
                              "CRITICAL", "main", 0, 0))
    /\ UNCHANGED <<env, retries, missing_vars, validations, table0, df>>
    /\ UNCHANGED fetchVars
    /\ UNCHANGED dbVars

\* --------------------------------------------------- fetch_all_tickers_data
\* Mutant: an instrument whose fetch returned the failure marker is fetched
\* again until it answers.
FetchReturnedRefetches(r) ==
    /\ attempt' = 0
    /\ IF r.none
       THEN UNCHANGED <<results, all_data, pc, idx>>
       ELSE /\ results' = Append(results, r)
            /\ all_data' = AppendData(all_data, r)
            /\ IF idx = NumTickers
               THEN /\ pc' = "aggregate"
                    /\ idx' = idx
               ELSE /\ pc' = "fetch"
                    /\ idx' = idx + 1

\* Mutant: a failure marker breaks out of the for loop.
FetchReturnedStopsOnFailure(r) ==
    /\ results' = Append(results, r)
    /\ all_data' = AppendData(all_data, r)
    /\ attempt' = 0
    /\ IF idx = NumTickers \/ r.none
       THEN /\ pc' = "aggregate"
            /\ idx' = idx
       ELSE /\ pc' = "fetch"
            /\ idx' = idx + 1

\* fetch_ticker_data returned r for tickers[idx]: the loop body, then the next
\* instrument, or the end of the loop.
FetchReturned(r) ==
    /\ results' = Append(results, r)
    /\ all_data' = AppendData(all_data, r)
    /\ attempt' = 0
    /\ IF idx = NumTickers
       THEN /\ pc' = "aggregate"
            /\ idx' = idx
       ELSE /\ pc' = "fetch"
            /\ idx' = idx + 1

\* for attempt in range(retries) with retries = 0: no call, None is returned.
FetchNoAttempt ==
    /\ pc = "fetch"
    /\ retries = 0
    /\ FetchReturned(None)
    /\ UNCHANGED <<clock, calls, raised, exitCode, log, df>>
    /\ UNCHANGED cfgVars
    /\ UNCHANGED dbVars

\* One attempt whose provider call answers with n rows.
ProviderCallOk ==
    /\ pc = "fetch"
    /\ attempt < retries
    /\ \E n \in 0..MaxRows:
         LET t == tickers[idx]
             now == clock + 1
             data == Stamp(History(t, n), t, now)
         IN /\ clock' = now
            /\ calls' = Append(calls, <<t, attempt + 1, "ok", n>>)
            /\ IF ReturnsOnSuccess(data)
               THEN /\ log' = Logged(log, "INFO", "fetched", t, 0)
                    /\ FetchReturned(DataFrame(data))
               ELSE /\ log' = Logged(log, "WARNING", "attempt", t, attempt + 1)
                    /\ IF attempt = retries - 1
                       THEN FetchReturned(None)
                       ELSE /\ attempt' = attempt + 1
                            /\ UNCHANGED <<pc, idx, all_data, results>>
    /\ UNCHANGED <<raised, exitCode, df>>
    /\ UNCHANGED cfgVars
    /\ UNCHANGED dbVars

\* One attempt whose provider call raises.
ProviderCallFails ==
    /\ pc = "fetch"
    /\ attempt < retries
    /\ LET t == tickers[idx]
           warned == Logged(log, "WARNING", "attempt", t, attempt + 1)
           next == AfterFailedAttempt(attempt, retries)
       IN /\ clock' = clock + 1
          /\ calls' = Append(calls, <<t, attempt + 1, "err", 0>>)
          /\ CASE next = "return_none" ->
                    /\ log' = Logged(warned, "ERROR", "exhausted", t, retries)
                    /\ FetchReturned(None)
                    /\ UNCHANGED <<raised, exitCode>>
               [] next = "retry" ->
                    /\ log' = warned
                    /\ attempt' = attempt + 1
                    /\ UNCHANGED <<pc, idx, all_data, results, raised, exitCode>>
               [] OTHER ->
                    /\ Abort("ProviderError", RunEtlFailed(warned))
                    /\ UNCHANGED <<idx, attempt, all_data, results>>
    /\ UNCHANGED df
    /\ UNCHANGED cfgVars
    /\ UNCHANGED dbVars

\* The end of fetch_all_tickers_data: the emptiness check and pd.concat.
Aggregate ==
    /\ pc = "aggregate"
    /\ IF NoData(all_data)
       THEN /\ Abort("ValueError", RunEtlFailed(log))
            /\ df' = df
       ELSE /\ df' = Concat(all_data)
            /\ pc' = "save"
            /\ UNCHANGED <<raised, exitCode, log>>
    /\ UNCHANGED fetchVars
    /\ UNCHANGED cfgVars
    /\ UNCHANGED dbVars

\* --------------------------------------------------------- save_to_postgres
\* A database operation of the running save raised exc: the with block rolls
\* the transaction back and the exception travels up to __main__.
SaveAbort(exc, op) ==
    /\ table' = Rollback(table, work)
    /\ work' = table'
    /\ dbOps' = dbOps \o <<op, "rollback">>
    /\ Abort(exc, SaveFailed(log, exc))

\* save_to_postgres up to self.engine.begin(): the connection is opened and the
\* transaction begun. run_etl passes if_exists = 'replace' (the default); the
\* parameter also takes 'append' and 'fail', and to_sql takes any chunksize.
SaveBegin ==
    /\ pc = "save"
    /\ \E mode \in Modes, cs \in 1..MaxChunkSize, ok \in BOOLEAN:
         /\ if_exists' = mode
         /\ chunksize' = cs
         /\ chunk_i' = 0
         /\ IF ok
            THEN /\ work' = table
                 /\ table' = table
                 /\ dbOps' = Append(dbOps, "begin")
                 /\ pc' = "has_table"
                 /\ UNCHANGED <<raised, exitCode, log>>
            ELSE /\ UNCHANGED <<table, work>>
                 /\ dbOps' = Append(dbOps, "connect_failed")
                 /\ Abort("SQLAlchemyError", SaveFailed(log, "SQLAlchemyError"))
    /\ UNCHANGED df
    /\ UNCHANGED fetchVars
    /\ UNCHANGED cfgVars

\* to_sql, table.create(): looks the table up and decides by if_exists. With
\* 'fail' and an existing table pandas raises its own ValueError, written
\* "TableExists" here to keep it apart from the ValueError of line 112.
HasTable ==
    /\ pc = "has_table"
    /\ \E ok \in BOOLEAN:
         IF ~ok
         THEN SaveAbort("SQLAlchemyError", "has_table")
         ELSE IF work.exists /\ if_exists = "fail"
         THEN SaveAbort("TableExists", "has_table")
         ELSE /\ dbOps' = Append(dbOps, "has_table")
              /\ pc' = IF ~work.exists THEN "create"
                       ELSE IF if_exists = "replace" THEN "drop" ELSE "insert"
              /\ UNCHANGED <<table, work, raised, exitCode, log>>
    /\ UNCHANGED <<if_exists, chunksize, chunk_i, df>>
    /\ UNCHANGED fetchVars
    /\ UNCHANGED cfgVars

\* to_sql with if_exists = 'replace' on an existing table: DROP TABLE.
DropTable ==
    /\ pc = "drop"
    /\ \E ok \in BOOLEAN:
         IF ok
         THEN /\ work' = NoTable
              /\ dbOps' = Append(dbOps, "drop")
              /\ pc' = "create"
              /\ UNCHANGED <<table, raised, exitCode, log>>
         ELSE SaveAbort("SQLAlchemyError", "drop")
    /\ UNCHANGED <<if_exists, chunksize, chunk_i, df>>
    /\ UNCHANGED fetchVars
    /\ UNCHANGED cfgVars

\* to_sql on a missing (or just dropped) table: CREATE TABLE.
CreateTable ==
    /\ pc = "create"
    /\ \E ok \in BOOLEAN:
         IF ok
         THEN /\ work' = Table(<<>>)
              /\ dbOps' = Append(dbOps, "create")
              /\ pc' = "insert"
              /\ UNCHANGED <<table, raised, exitCode, log>>
         ELSE SaveAbort("SQLAlchemyError", "create")
    /\ UNCHANGED <<if_exists, chunksize, chunk_i, df>>
    /\ UNCHANGED fetchVars
    /\ UNCHANGED cfgVars

\* to_sql, method = 'multi': one INSERT statement per chunk of chunksize rows.
InsertChunk ==
    /\ pc = "insert"
    /\ IF ChunksDone(df, chunksize, chunk_i)
       THEN /\ pc' = "commit"
            /\ UNCHANGED <<table, work, chunk_i, dbOps, raised, exitCode, log>>
       ELSE \E ok \in BOOLEAN:
                 IF ok
                 THEN /\ work' = Table(work.rows \o Chunk(df, chunksize, chunk_i))
                      /\ dbOps' = Append(dbOps, "insert")
                      /\ chunk_i' = chunk_i + 1
                      /\ UNCHANGED <<pc, table, raised, exitCode, log>>
                 ELSE /\ SaveAbort("SQLAlchemyError", "insert")
                      /\ UNCHANGED chunk_i
    /\ UNCHANGED <<if_exists, chunksize, df>>
    /\ UNCHANGED fetchVars
    /\ UNCHANGED cfgVars

\* The with block ends: COMMIT. A commit the database refuses leaves the
\* transaction rolled back. After the commit save_to_postgres and run_etl log
\* their success and the script ends.
Commit ==
    /\ pc = "commit"
    /\ \E ok \in BOOLEAN:
         IF ok
         THEN /\ table' = CommitTx(table, work)
              /\ work' = table'
              /\ dbOps' = Append(dbOps, "commit")
              /\ pc' = "exited"
              /\ exitCode' = ExitStatus(FALSE)
              /\ log' = Logged(Logged(log, "INFO", "saved", 0, 0),
                               "INFO", "run_etl", 0, 0)
              /\ UNCHANGED raised
         ELSE SaveAbort("SQLAlchemyError", "commit")
    /\ UNCHANGED <<if_exists, chunksize, chunk_i, df>>
    /\ UNCHANGED fetchVars
    /\ UNCHANGED cfgVars

Next ==
    \/ ValidateEnvVars
    \/ CreateDbEngine
    \/ FetchNoAttempt
    \/ ProviderCallOk
    \/ ProviderCallFails
    \/ Aggregate
    \/ SaveBegin
    \/ HasTable
    \/ DropTable
    \/ CreateTable
    \/ InsertChunk
    \/ Commit

Spec == Init /\ [][Next]_vars

\* The script is one sequential process that is never suspended: whenever a
\* step is possible, a step is taken.
FairSpec == Spec /\ WF_vars(Next)

\* ------------------------------------------------- vocabulary of the claims
SavePhases == {"save", "has_table", "drop", "create", "insert", "commit"}

\* Every instrument has been fetched and the for loop has ended.
FetchAllEnded == Len(results) = NumTickers /\ pc \notin {"fetch", "aggregate"}

\* fetch_all_tickers_data returned a frame to run_etl.
FetchAllReturned == pc \in SavePhases \/ (pc = "exited" /\ dbOps # <<>>)

\* save_to_postgres ran to its end.
SaveCompleted == dbOps # <<>> /\ dbOps[Len(dbOps)] = "commit"

RECURSIVE SuccessRows(_)
\* The records of the successful fetches, in the order the fetches were made.
SuccessRows(rs) ==
    IF rs = <<>> THEN <<>>
    ELSE (IF Head(rs).none THEN <<>> ELSE Head(rs).rows) \o SuccessRows(Tail(rs))

RECURSIVE TotalRecords(_)
\* The sum of the record counts of the successful fetches.
TotalRecords(rs) ==
    IF rs = <<>> THEN 0
    ELSE (IF Head(rs).none THEN 0 ELSE Len(Head(rs).rows)) + TotalRecords(Tail(rs))

\* The required parameters that are absent or empty.
Deficient == {v \in RequiredSet : env[v] \in {"absent", "empty"}}

\* ------------------------------------------------------------------ claims

\* C1: whenever the fetches of a run collected zero records in total,
\* fetch_all_tickers_data raises instead of returning, so every frame it
\* returns is non-empty. (Stated as claimed; the code returns an empty frame
\* when fetches succeeded with empty answers.)
C1_EmptyBatchRaises ==
    /\ (FetchAllEnded /\ TotalRecords(results) = 0) => raised = "ValueError"
    /\ FetchAllReturned => df # <<>>

\* C2: a save that fails at any point leaves the committed table exactly as it
\* was when the run began, in every mode; while the save is running no partial
\* write is visible; and the failure reaches the caller (the run ends with an
\* exception and a non-zero status).
C2_SaveAtomic ==
    /\ (pc # "exited" \/ ~SaveCompleted) => table = table0
    /\ (pc = "exited" /\ dbOps # <<>> /\ ~SaveCompleted)
          => (raised \in {"SQLAlchemyError", "TableExists"} /\ exitCode # 0)

\* C2 witness: in replace mode the old table was dropped, at least one chunk
\* but not all chunks were inserted, the next INSERT failed, and the old row
\* is still there.
C2_Witness ==
    /\ pc = "exited"
    /\ raised = "SQLAlchemyError"
    /\ if_exists = "replace"
    /\ table0 = Table(<<OldRow>>)
    /\ table = table0
    /\ chunk_i >= 1
    /\ chunk_i * chunksize < Len(df)
    /\ dbOps[Len(dbOps) - 1] = "insert"

\* C3: the frame fetch_all_tickers_data returns is the concatenation, in
\* configured order, of the records of the successful fetches: no record of a
\* failed instrument, no reordering across instruments, and as many records
\* as the successful fetches returned together.
C3_BatchIsConcatenation ==
    FetchAllReturned =>
        /\ df = SuccessRows(results)
        /\ Len(df) = TotalRecords(results)
        /\ \A k \in DOMAIN df: ~results[df[k].ticker].none
        /\ \A j, k \in DOMAIN df:
              j < k => \/ df[j].ticker < df[k].ticker
                       \/ (df[j].ticker = df[k].ticker /\ df[j].date < df[k].date)

\* C3 witness: the first instrument failed after a retry, the second returned
\* MaxRows rows, and the frame returned holds the second's rows only.
C3_Witness ==
    /\ pc = "save"
    /\ results[1].none
    /\ Len(calls) > 2
    /\ Len(results[2].rows) = MaxRows
    /\ df = results[2].rows

\* The provider calls made for instrument t, in order.
CallsFor(t) == SelectSeq(calls, LAMBDA c: c[1] = t)

\* Some provider call for instrument t succeeded.
SomeCallOk(t) == \E k \in DOMAIN calls: calls[k][1] = t /\ calls[k][3] = "ok"

\* C4: a fetch returns the failure marker exactly when none of its provider
\* calls succeeded (with retries = 0 there is no call at all), no provider
\* error ever leaves fetch_ticker_data as an exception, and a run in which
\* every fetch returned the failure marker raises from fetch_all_tickers_data
\* without touching the database.
C4_FailureMarker ==
    /\ \A i \in DOMAIN results:
          /\ results[i].none <=> ~SomeCallOk(tickers[i])
          /\ results[i].none => Len(CallsFor(tickers[i])) = retries
    /\ raised # "ProviderError"
    /\ (\E k \in DOMAIN calls: calls[k][3] = "err") => pc # "exited" \/ Len(results) = NumTickers
    /\ (FetchAllEnded /\ \A i \in DOMAIN results: results[i].none)
          => (raised = "ValueError" /\ dbOps = <<>> /\ exitCode # 0)

\* C4 witness: every attempt of every instrument failed, MaxRetries attempts
\* each, and the run ended with the ValueError.
C4_Witness ==
    /\ pc = "exited"
    /\ retries = MaxRetries
    /\ Len(calls) = NumTickers * MaxRetries
    /\ \A i \in DOMAIN results: results[i].none
    /\ Len(results) = NumTickers
    /\ raised = "ValueError"

\* C5: a run that collected zero records never starts a database write and
\* leaves the table as it was; the write is reached with a non-empty frame
\* only. (Stated as claimed; it fails for the runs of C1.)
C5_NoWriteWithoutRecords ==
    /\ (Len(results) = NumTickers /\ TotalRecords(results) = 0)
          => (dbOps = <<>> /\ table = table0 /\ pc \notin SavePhases)
    /\ pc \in SavePhases => df # <<>>

\* The three stages, as the run's history shows them.
ConfigurationOk == Deficient = {} /\ engine
AggregationOk == Len(results) = NumTickers /\ \E i \in DOMAIN results: ~results[i].none
PersistenceOk == SaveCompleted

C7_MissingNamed ==
    validations > 0 =>
        /\ raised = "EnvironmentError" <=> Deficient # {}
        /\ Deficient = {} => missing_vars = <<>>
        /\ Deficient # {} =>
              /\ {missing_vars[k] : k \in DOMAIN missing_vars} = Deficient
              /\ Len(missing_vars) = Cardinality(Deficient)

\* C7 witness: one parameter is absent, another is empty, a third is set, and
\* the error names the two.
C7_Witness ==
    /\ raised = "EnvironmentError"
    /\ env["DB_HOST_PROD"] = "set"
    /\ env["DB_PORT_PROD"] = "absent"
    /\ env["DB_SCHEMA_PROD"] = "empty"
    /\ Cardinality(Deficient) = 2
    /\ missing_vars = <<"DB_PORT_PROD", "DB_SCHEMA_PROD">>

\* C8: with a required parameter missing the run ends with the configuration
\* error before any provider call, before the engine is created and before
\* any database operation; the validation runs once and never again.
C8_ConfigFailsFirst ==
    /\ validations <= 1
    /\ pc # "start" => validations = 1
    /\ Deficient # {} =>
          /\ calls = <<>> /\ results = <<>> /\ clock = 0
          /\ ~engine
          /\ dbOps = <<>> /\ table = table0
          /\ pc \in {"start", "exited"}
          /\ pc = "exited" => (raised = "EnvironmentError" /\ exitCode # 0)

\* C8 witness: every required parameter is missing and the run has ended with
\* the configuration error after one validation.
C8_Witness ==
    /\ pc = "exited"
    /\ Deficient = RequiredSet
    /\ raised = "EnvironmentError"
    /\ validations = 1
    /\ ~engine

\* Some fetch succeeded with at least one record.
SomeRecords == \E i \in DOMAIN results: ~results[i].none /\ results[i].rows # <<>>

\* C9: once every instrument has been fetched and at least one fetch returned
\* one or more records, fetch_all_tickers_data returns (no ValueError) and the
\* run is in the write stage, whatever happened to the other instruments.
C9_PartialFailureProceeds ==
    (FetchAllEnded /\ SomeRecords) =>
        /\ FetchAllReturned
        /\ raised # "ValueError"
        /\ df # <<>>

\* C9 witness: the first instrument failed, the second returned one record,
\* and the write has begun with that record.
C9_Witness ==
    /\ pc = "has_table"
    /\ results[1].none
    /\ ~results[2].none /\ Len(results[2].rows) = 1
    /\ df = results[2].rows

\* The rows a completed save added to the table.
RowsWritten ==
    IF if_exists = "append" /\ table0.exists
    THEN SubSeq(table.rows, Len(table0.rows) + 1, Len(table.rows))
    ELSE table.rows

\* C10: a provider answer with zero rows ends the fetch at once (no further
\* call for that instrument) with an empty frame that is not the failure
\* marker; it adds no record to the batch; and when another instrument
\* returned records the run does not raise the ValueError and a completed
\* save has written exactly the records of the successful fetches.
C10_EmptyIsSuccess ==
    /\ \A k \in DOMAIN calls:
          (calls[k][3] = "ok" /\ calls[k][4] = 0) =>
              LET t == calls[k][1]
              IN /\ \A j \in DOMAIN calls: j > k => calls[j][1] # t
                 /\ Len(results) >= t
                 /\ results[t] = DataFrame(<<>>)
                 /\ results[t] # None
    /\ (FetchAllEnded /\ SomeRecords) =>
          /\ raised # "ValueError"
          /\ Len(df) = TotalRecords(results)
          /\ (pc = "exited" /\ SaveCompleted) =>
                (RowsWritten = SuccessRows(results)
                   /\ Len(RowsWritten) = TotalRecords(results))

\* C10 witness: the first instrument returned 2 rows, the second 0 rows, the
\* batch holds 2 records and the completed replace wrote 2 rows.
C10_Witness ==
    /\ pc = "exited"
    /\ SaveCompleted
    /\ if_exists = "replace"
    /\ Len(results[1].rows) = 2 /\ ~results[1].none
    /\ results[2] = DataFrame(<<>>)
    /\ Len(df) = 2
    /\ Len(table.rows) = 2

\* The position in calls of the successful call for instrument t (0 if none).
OkCallOf(t) ==
    IF SomeCallOk(t)
    THEN CHOOSE k \in DOMAIN calls: calls[k][1] = t /\ calls[k][3] = "ok"
    ELSE 0

\* C11: every record a successful fetch returned carries the identifier of the
\* fetched instrument, and all records of the fetch carry one capture time,
\* not null, read at the successful attempt (the clock ticks at every provider
\* call, so the time of the k-th call is k and differs from the time of every
\* failed attempt); every record of the batch belongs to the fetch of the
\* instrument it names.
C11_Stamped ==
    /\ \A i \in DOMAIN results:
          ~results[i].none =>
              \A d \in DOMAIN results[i].rows:
                  LET r == results[i].rows[d]
                  IN /\ r.ticker = tickers[i]
                     /\ r.data_coleta # 0
                     /\ r.data_coleta = OkCallOf(tickers[i])
                     /\ r.data_coleta = results[i].rows[1].data_coleta
                     /\ \A k \in DOMAIN calls:
                           calls[k][3] = "err" => r.data_coleta # k
    /\ FetchAllReturned =>
          \A k \in DOMAIN df:
              /\ df[k].ticker \in DOMAIN results
              /\ ~results[df[k].ticker].none
              /\ \E d \in DOMAIN results[df[k].ticker].rows:
                    results[df[k].ticker].rows[d] = df[k]

\* C11 witness: the second instrument failed once and then returned MaxRows
\* rows, all stamped with the time of the successful call.
C11_Witness ==
    /\ Len(results) = 2
    /\ ~results[2].none
    /\ Len(results[2].rows) = MaxRows
    /\ \E k \in DOMAIN calls:
          /\ k > 1
          /\ calls[k - 1] = <<2, 1, "err", 0>>
          /\ calls[k] = <<2, 2, "ok", MaxRows>>
          /\ \A d \in DOMAIN results[2].rows: results[2].rows[d].data_coleta = k

\* The (date, ticker, close price) triples of a sequence of rows.
Triples(rows) == [k \in DOMAIN rows |-> <<rows[k].date, rows[k].ticker, rows[k].Close>>]

\* C12: after a completed save in replace mode the table holds exactly the
\* records of the frame - as many rows, the same (date, ticker, close) triples
\* - whatever the table held before and whatever the chunksize; no earlier
\* row survives.
C12_ReplaceRoundTrip ==
    (pc = "exited" /\ SaveCompleted /\ if_exists = "replace") =>
        /\ table.exists
        /\ Len(table.rows) = Len(df)
        /\ Triples(table.rows) = Triples(df)
        /\ \A k \in DOMAIN table.rows: table.rows[k] # OldRow

\* C12 witness: the table held an old row, the frame has three records, they
\* were sent in two chunks (2 + 1), and the table now holds the three.
C12_Witness ==
    /\ pc = "exited"
    /\ SaveCompleted
    /\ if_exists = "replace"
    /\ table0 = Table(<<OldRow>>)
    /\ Len(df) = 3
    /\ chunksize = 2
    /\ chunk_i = 2
    /\ table.rows = df

\* C13: within one fetch the provider is called once per attempt, attempts
\* numbered 1, 2, ... without gap, at most retries times; no call follows a
\* successful one; a fetch that returned a frame made exactly as many calls as
\* the number of its first successful attempt, and a fetch that returned the
\* failure marker made exactly retries calls, all failed.
C13_BoundedRetries ==
    \A t \in 1..NumTickers:
        LET cs == CallsFor(t)
        IN /\ Len(cs) <= retries
           /\ \A j \in DOMAIN cs: cs[j][2] = j
           /\ \A j \in DOMAIN cs: j < Len(cs) => cs[j][3] = "err"
           /\ (pc = "fetch" /\ idx = t) => Len(cs) = attempt
           /\ Len(results) >= t =>
                 IF results[t].none
                 THEN Len(cs) = retries /\ \A j \in DOMAIN cs: cs[j][3] = "err"
                 ELSE Len(cs) >= 1 /\ cs[Len(cs)][3] = "ok"

\* C13 witness: with retries = 2 the first instrument succeeded at attempt 2
\* (two calls) and the second failed twice (two calls, failure marker).
C13_Witness ==
    /\ retries = 2
    /\ Len(calls) = 4
    /\ Len(results) = 2
    /\ ~results[1].none
    /\ results[2].none
    /\ calls[1][3] = "err" /\ calls[2][3] = "ok"
    /\ calls[3] = <<2, 1, "err", 0>> /\ calls[4] = <<2, 2, "err", 0>>

\* C14: a run is sequential. The provider calls come instrument by instrument
\* in configured order (all calls of one instrument before the first call of
\* the next); every instrument is fetched once, also after a failure of an
\* earlier one; the aggregation and the write start only when the last fetch
\* has returned; and while the database is in use no fetch is in progress.
C14_Sequential ==
    /\ \A j, k \in DOMAIN calls: j < k => calls[j][1] <= calls[k][1]
    /\ \A j, k \in DOMAIN calls:
          (j < k /\ calls[j][1] = calls[k][1]) => calls[j][2] < calls[k][2]
    /\ Len(results) <= NumTickers
    /\ pc = "fetch" =>
          /\ Len(results) = idx - 1
          /\ \A k \in DOMAIN calls: calls[k][1] <= tickers[idx]
    /\ pc \in {"start", "create_engine", "fetch", "aggregate", "save"}
          => (dbOps = <<>> /\ table = table0)
    /\ (pc \in SavePhases \cup {"aggregate"} \/ dbOps # <<>> \/ raised = "ValueError")
          => /\ Len(results) = NumTickers
             /\ retries > 0 => \A t \in 1..NumTickers: CallsFor(tickers[t]) # <<>>
    /\ dbOps # <<>> => pc \in {"has_table", "drop", "create", "insert", "commit", "exited"}

\* C14 witness: the first instrument failed on every attempt, the second was
\* fetched all the same and returned rows at its second attempt, and the
\* first INSERT has been sent.
C14_Witness ==
    /\ pc = "insert"
    /\ chunk_i = 1
    /\ retries = 2
    /\ Len(calls) = 4
    /\ results[1].none
    /\ ~results[2].none
    /\ calls[4] = <<2, 2, "ok", 2>>

\* The save_to_postgres calls of the run that reached the database.
Writes == Cardinality({k \in DOMAIN dbOps : dbOps[k] \in {"begin", "connect_failed"}})

\* The transactions of the run that were committed.
Commits ==
    Cardinality({k \in DOMAIN dbOps :
                    /\ dbOps[k] = "commit"
                    /\ (k < Len(dbOps) => dbOps[k + 1] # "rollback")})

\* C15: nothing is retried above the per-instrument fetch. In one run no
\* instrument is fetched a second time (the aggregation runs once), the write
\* is attempted at most once, a successful run has consumed the frame in
\* exactly one committed write, and once a stage has failed the run is over:
\* no fetch or write step is possible any more.
C15_NoOuterRetry ==
    /\ Len(results) <= NumTickers
    /\ \A t \in 1..NumTickers: Len(CallsFor(tickers[t])) <= retries
    /\ Writes <= 1
    /\ Commits <= Writes
    /\ raised # "none" => pc = "exited"
    /\ pc = "exited" => ~ENABLED Next
    /\ (pc = "exited" /\ raised = "none") =>
          /\ Writes = 1 /\ Commits = 1
          /\ RowsWritten = df

\* C15 witness: the write was attempted once, its commit failed, and the run
\* is over with one write on record and nothing committed.
C15_Witness ==
    /\ pc = "exited"
    /\ raised = "SQLAlchemyError"
    /\ Writes = 1
    /\ Len(dbOps) >= 2
    /\ dbOps[Len(dbOps) - 1] = "commit"
    /\ dbOps[Len(dbOps)] = "rollback"
    /\ Commits = 0
    /\ table = table0

\* The final failure record of fetch_ticker_data for instrument t.
ExhaustedLog(t) == <<"ERROR", "exhausted", t, retries>>

\* C16: every fetch that returned the failure marker has logged the failure
\* with the instrument and the attempt count, whatever retries is (0
\* included), and a fetch that returned a frame has not. (Stated as claimed;
\* with retries = 0 the code returns None without any log record.)
C16_FailureLogged ==
    \A i \in DOMAIN results:
        LET logged == \E k \in DOMAIN log: log[k] = ExhaustedLog(tickers[i])
        IN results[i].none <=> logged

\* The INSERT statements sent to the database.
Inserts == Cardinality({k \in DOMAIN dbOps : dbOps[k] = "insert"})

\* What a run can spend: provider calls, writes, statements of the one write.
C17_Bounded ==
    /\ Len(calls) <= NumTickers * retries
    /\ clock = Len(calls)
    /\ Writes <= 1
    /\ Inserts <= Len(df)
    /\ Len(dbOps) <= Len(df) + 6

\* C17: every run ends. Whatever the provider and the database answer, the
\* process exits (with success or failure) after at most NumTickers * retries
\* provider calls and at most one write.
C17_Terminates == []C17_Bounded /\ <>(pc = "exited")

\* C17 witness: the longest run - every instrument used all its attempts and
\* succeeded at the last one with MaxRows rows, the rows were written one per
\* chunk over an existing table, and the process has exited.
C17_Witness ==
    /\ pc = "exited"
    /\ retries = MaxRetries
    /\ Len(calls) = NumTickers * MaxRetries
    /\ Len(df) = NumTickers * MaxRows
    /\ Writes = 1
    /\ Inserts = Len(df)
    /\ SaveCompleted
    /\ if_exists = "replace"
    /\ table0.exists

====
